---- MODULE Spec2Model ----
(***************************************************************************)
(* Model of carbon-clickhouse's RowBinary stream reader                    *)
(* (helper/RowBinary/reader) and of the metric-path reversal helpers.      *)
(*                                                                         *)
(* A uint64 is modelled as the set of its set bit positions (a subset of   *)
(* 0..63), so that shifts lose exactly the bits a 64-bit register loses.   *)
(* A byte is a number in 0..255, a stream or slice a sequence of bytes.    *)
(***************************************************************************)
EXTENDS Integers, Sequences, FiniteSets, TLC

\* ------------------------------------------------------------------------
\* Program constants
\* ------------------------------------------------------------------------
SIZE_INT8 == 1
SIZE_INT16 == 2
SIZE_INT32 == 4
SIZE_INT64 == 8

\* make([]byte, 65536) in NewReader
BufCap == 65536

\* error values; "nil" is the nil error
ErrNil == "nil"
ErrEOF == "EOF"
ErrUvarintOverflow == "varint overflow"
ErrSource == "source error"

\* ------------------------------------------------------------------------
\* Bounds of the model
\* ------------------------------------------------------------------------
\* longest stream drawn freely from Alphabet
MaxLen == 2
\* largest short-read size of the source (bytes delivered per Read call)
MaxChunk == 1
\* most continuation bytes in the hand-made varint streams
MaxCont == 11
\* longest string list in the well-formed list streams
MaxList == 2

\* ------------------------------------------------------------------------
\* Bytes and 64-bit words
\* ------------------------------------------------------------------------
Min(a, b) == IF a < b THEN a ELSE b

\* set bits of the byte b
Bits8(b) == {j \in 0..7 : (b \div (2^j)) % 2 = 1}

\* uint64(x) << s : bits shifted past position 63 are lost
Shl64(x, s) == {j + s : j \in x} \cap (0..63)

RECURSIVE SumPow(_)
SumPow(S) == IF S = {} THEN 0
             ELSE LET b == CHOOSE b \in S : TRUE
                  IN 2^b + SumPow(S \ {b})

\* a word that fits a model integer
Small(u) == u \subseteq (0..20)
ToNat(u) == SumPow(u)

\* int(u) > cap(r.buf), or int(u) < 0 : r.buf[0:want] is out of range
OutOfBuf(u) == IF Small(u) THEN ToNat(u) > BufCap ELSE TRUE

\* F applied to the value of v, with v evaluated once
Bind(v, F(_)) == CHOOSE r \in {F(x) : x \in {v}} : TRUE

\* ------------------------------------------------------------------------
\* State
\* ------------------------------------------------------------------------
VARIABLES
    src,        \* bytes the wrapped io.Reader has not delivered yet
    chunk,      \* most bytes the wrapped io.Reader delivers per Read call
    srcErr,     \* error the wrapped io.Reader returns once it is drained
    eofEarly,   \* the wrapped io.Reader returns that error already with its last bytes
    buf,        \* written prefix of r.buf (bytes past it are still zero)
    op,         \* last decode call made on the Reader
    pre,        \* src when that call was made
    ret,        \* what that call returned
    reads,      \* the calls of wrapped.Read that call made: <<want, got, err>>
    panicked,   \* the last call ended in a run-time panic
    truncated,  \* a fixed-size read has failed on a short read that drained the source
    bufWas,     \* r.buf when the last call was made
    held,       \* len of the slice the call before the last returned from ReadStringBytes
    pc,           \* position in testCarbonClickhouse
    version,      \* 1: testCarbonClickhouse with breakOnError, 2: the one without
    breakOnError, \* parameter breakOnError (FALSE in version 2, which has none)
    inputType,    \* parameter inputType
    nInput,       \* len(test.Input)
    nVerify,      \* len(test.Verify)
    vi,           \* number of test.Verify entries the loop has gone through
    testSuccess,  \* named result testSuccess
    verifyFailed, \* local verifyFailed
    lastErr,      \* local err
    started,      \* clickhouse.Start returned a nil error
    back,         \* where debug() returns to
    calls,        \* calls made on clickhouse and cch so far, in order
    answers,      \* lines debug() has read from stdin so far
    path,       \* the metric path S handed to a reversal
    target,     \* the mutable copy of S that ReverseMetricInplace works on
    dstBuf,     \* the destination D of ReverseBytesTo
    srcBuf,     \* the source slice of ReverseBytesTo
    rop         \* the reversal that has run

readerVars == <<src, chunk, srcErr, eofEarly, buf, op, pre, ret, reads, panicked, truncated,
                bufWas, held>>
reverseVars == <<path, target, dstBuf, srcBuf, rop>>
e2eVars == <<pc, version, breakOnError, inputType, nInput, nVerify, vi, testSuccess,
             verifyFailed, lastErr, started, back, calls, answers>>
vars == <<readerVars, reverseVars, e2eVars>>

\* testCarbonClickhouse is not running
E2EIdle ==
    /\ pc = "idle" /\ version = 1 /\ breakOnError = FALSE /\ inputType = "tcp"
    /\ nInput = 0 /\ nVerify = 0 /\ vi = 0 /\ testSuccess = TRUE /\ verifyFailed = 0
    /\ lastErr = "nil" /\ started = FALSE /\ back = "none" /\ calls = <<>> /\ answers = <<>>

\* ------------------------------------------------------------------------
\* The wrapped io.Reader
\* ------------------------------------------------------------------------
\* wrapped.Read(p) with len(p) = want, on remaining bytes s: an io.Reader may
\* deliver fewer bytes than asked for, and may report its end together with the
\* last bytes or on the Read after them
SrcRead(s, want) ==
    IF s = <<>>
    THEN [n |-> 0, err |-> srcErr, data |-> <<>>, rest |-> <<>>]
    ELSE LET n == Min(want, Min(chunk, Len(s)))
         IN [n |-> n, err |-> IF eofEarly /\ n = Len(s) THEN srcErr ELSE ErrNil,
             data |-> SubSeq(s, 1, n), rest |-> SubSeq(s, n + 1, Len(s))]

\* copy of data into b at offset off (0-based); b is the written prefix of r.buf
BufWrite(b, off, data) ==
    LET newLen == IF Len(data) = 0 THEN Len(b)
                  ELSE IF off + Len(data) > Len(b) THEN off + Len(data) ELSE Len(b)
    IN [k \in 1..newLen |->
          IF k > off /\ k <= off + Len(data) THEN data[k - off]
          ELSE IF k <= Len(b) THEN b[k] ELSE 0]

\* r.buf[k] (0-based)
BufAt(b, k) == IF k + 1 <= Len(b) THEN b[k + 1] ELSE 0

\* r.buf[:n]
BufSlice(b, n) == [k \in 1..n |-> BufAt(b, k - 1)]

\* the Reader and its source while a call runs
Mach(s, b, rs) == [src |-> s, buf |-> b, reads |-> rs]

\* one wrapped.Read(r.buf[off : off+want])
DoRead(m, off, want) ==
    Bind(SrcRead(m.src, want), LAMBDA rd :
        [m |-> Mach(rd.rest, BufWrite(m.buf, off, rd.data),
                    Append(m.reads, <<want, rd.n, rd.err>>)),
         n |-> rd.n, err |-> rd.err])

\* ------------------------------------------------------------------------
\* Results
\* ------------------------------------------------------------------------
\* num: scalar result; bytes: slice or string result; isNil: the slice is nil;
\* list: decoded elements of a string list; n: len of the returned list
Result(num, bytes, isNil, list, n, err) ==
    [num |-> num, bytes |-> bytes, isNil |-> isNil, list |-> list, n |-> n, err |-> err]

NumResult(num, err) == Result(num, <<>>, TRUE, <<>>, {}, err)
BytesResult(bytes, isNil, err) == Result({}, bytes, isNil, <<>>, {}, err)
ListResult(list, isNil, n, err) == Result({}, <<>>, isNil, list, n, err)
NoResult == Result({}, <<>>, TRUE, <<>>, {}, ErrNil)

\* outcome of a call: machine after it, result, panic flag
Out(m, r, p) == [m |-> m, ret |-> r, panic |-> p]

\* ------------------------------------------------------------------------
\* Reader.read
\* ------------------------------------------------------------------------
\* mutant: a short read is taken for a full one
ShortReadIgnored(n, want) == FALSE

\* line 40: the source delivered fewer bytes than asked for
ShortRead(n, want) == n < want

\* mutant: the whole buffer is offered to the source
ReadLenAll(want) == BufCap

\* line 38: len(r.buf[0:want])
ReadLen(want) == want

\* read(want), want a model integer in 1..BufCap
read(m, want) ==
    Bind(DoRead(m, 0, ReadLen(want)), LAMBDA d :
        IF d.err # ErrNil THEN [m |-> d.m, buf |-> <<>>, err |-> d.err]
        ELSE IF ShortRead(d.n, want) THEN [m |-> d.m, buf |-> <<>>, err |-> ErrEOF]
        ELSE [m |-> d.m, buf |-> BufSlice(d.m.buf, want), err |-> ErrNil])

\* ------------------------------------------------------------------------
\* Reader.ReadUvarint
\* ------------------------------------------------------------------------
\* mutant: the group limit is a wrong, larger constant
LoopLimitLarge(i) == i >= 16

\* line 56: the loop gives up at index i
LoopLimit(i) == i >= SIZE_INT64

\* line 67: a terminating byte b at index i is beyond 64 bits
TermOverflow(i, b) == i > 9 \/ (i = 9 /\ b > 1)

\* mutant: the byte is read into the slot after the one that is examined
VarintSlotNext(i) == i + 1

\* line 59: the byte is read into r.buf[i : i+1]
VarintSlot(i) == i

RECURSIVE UvarintLoop(_, _, _, _)
UvarintLoop(m, i, x, s) ==
    IF LoopLimit(i) THEN [m |-> m, num |-> {}, err |-> ErrUvarintOverflow]
    ELSE Bind(DoRead(m, VarintSlot(i), 1), LAMBDA d :
            IF d.err # ErrNil THEN [m |-> d.m, num |-> {}, err |-> d.err]
            ELSE IF d.n # 1 THEN [m |-> d.m, num |-> {}, err |-> ErrEOF]
            ELSE LET b == BufAt(d.m.buf, i)
                 IN IF b < 128
                    THEN IF TermOverflow(i, b)
                         THEN [m |-> d.m, num |-> {}, err |-> ErrUvarintOverflow]
                         ELSE [m |-> d.m, num |-> x \cup Shl64(Bits8(b), s), err |-> ErrNil]
                    ELSE UvarintLoop(d.m, i + 1, x \cup Shl64(Bits8(b % 128), s), s + 7))

ReadUvarint(m) == UvarintLoop(m, 0, {}, 0)

\* ------------------------------------------------------------------------
\* Reader.ReadUint8/16/32/64, ReadFloat64, ReadDate
\* ------------------------------------------------------------------------
\* mutant: the bytes are taken most significant first
BigEndian(b) ==
    UNION {Shl64(Bits8(b[k]), 8 * (Len(b) - k)) : k \in 1..Len(b)}

\* binary.LittleEndian.UintN(buf), also buf[0] for one byte
LittleEndian(b) ==
    UNION {Shl64(Bits8(b[k]), 8 * (k - 1)) : k \in 1..Len(b)}

\* the body shared by ReadUint8/16/32/64
ReadFixed(m, size) ==
    Bind(read(m, size), LAMBDA r :
        IF r.err # ErrNil THEN Out(r.m, NumResult({}, r.err), FALSE)
        ELSE Out(r.m, NumResult(LittleEndian(r.buf), ErrNil), FALSE))

ReadUint8(m) == ReadFixed(m, SIZE_INT8)
ReadUint16(m) == ReadFixed(m, SIZE_INT16)
ReadUint32(m) == ReadFixed(m, SIZE_INT32)
ReadUint64(m) == ReadFixed(m, SIZE_INT64)

\* math.Float64frombits keeps the bit pattern: the float is its 64 bits
ReadFloat64(m) == ReadFixed(m, SIZE_INT64)

\* DateUint16(t) is midnight of day t; the time is held as its day number,
\* time.Unix(0, 0) is day 0
ReadDate(m) == ReadUint16(m)

\* ------------------------------------------------------------------------
\* Reader.ReadStringBytes, ReadString
\* ------------------------------------------------------------------------
\* mutant: a zero length is not special and asks the source for zero bytes
ZeroLenReads(u) == FALSE

\* line 122: the length is zero and nothing more is read
ZeroLen(u) == u = {}

ReadStringBytes(m) ==
    Bind(ReadUvarint(m), LAMBDA v :
        IF v.err # ErrNil THEN Out(v.m, BytesResult(<<>>, TRUE, v.err), FALSE)
        ELSE IF ZeroLen(v.num) THEN Out(v.m, BytesResult(<<>>, FALSE, ErrNil), FALSE)
        ELSE IF OutOfBuf(v.num) THEN Out(v.m, NoResult, TRUE)
        ELSE Bind(read(v.m, ToNat(v.num)), LAMBDA r :
                IF r.err # ErrNil THEN Out(r.m, BytesResult(<<>>, TRUE, r.err), FALSE)
                ELSE Out(r.m, BytesResult(r.buf, FALSE, ErrNil), FALSE)))

\* string(buf) is a copy; a string is never nil
ReadString(m) ==
    Bind(ReadStringBytes(m), LAMBDA o :
        IF o.panic THEN o
        ELSE IF o.ret.err # ErrNil THEN Out(o.m, BytesResult(<<>>, FALSE, o.ret.err), FALSE)
        ELSE Out(o.m, BytesResult(o.ret.bytes, FALSE, ErrNil), FALSE))

\* ------------------------------------------------------------------------
\* Reader.ReadStringList
\* ------------------------------------------------------------------------
\* make([]string, n) with n*16 bytes beyond the runtime's largest allocation
MakePanics(u) == \E b \in u : b >= 44

\* mutant: the loop stops one element early
BelowLast(i, u) == IF Small(u) THEN i + 1 < ToNat(u) ELSE TRUE

\* i < n, for a loop index i that is a model integer
Below(i, u) == IF Small(u) THEN i < ToNat(u) ELSE TRUE

\* mutant: the elements decoded so far are dropped on an error
ListFailNil(sList, u, err) == ListResult(<<>>, TRUE, {}, err)

\* line 159: return sList, err
ListFail(sList, u, err) == ListResult(sList, FALSE, u, err)

\* lines 157-162; sList holds the elements assigned so far, the other
\* elements of the n-element slice are ""
RECURSIVE ListLoop(_, _, _, _)
ListLoop(m, i, u, sList) ==
    IF ~Below(i, u) THEN Out(m, ListResult(sList, FALSE, u, ErrNil), FALSE)
    ELSE Bind(ReadString(m), LAMBDA o :
            IF o.panic THEN o
            ELSE IF o.ret.err # ErrNil
                 THEN Out(o.m, ListFail(sList, u, o.ret.err), FALSE)
            ELSE ListLoop(o.m, i + 1, u, Append(sList, o.ret.bytes)))

ReadStringList(m) ==
    Bind(ReadUvarint(m), LAMBDA v :
        IF v.err # ErrNil THEN Out(v.m, ListResult(<<>>, TRUE, {}, v.err), FALSE)
        ELSE IF v.num = {} THEN Out(v.m, ListResult(<<>>, FALSE, {}, ErrNil), FALSE)
        ELSE IF MakePanics(v.num) THEN Out(v.m, NoResult, TRUE)
        ELSE ListLoop(v.m, 0, v.num, <<>>))

\* ------------------------------------------------------------------------
\* Streams the source is loaded with
\* ------------------------------------------------------------------------
\* the word of a model integer
NatBits(n) == {j \in 0..30 : (n \div (2^j)) % 2 = 1}

MaxBit(v) == CHOOSE b \in v : \A c \in v : c <= b
NGroups(v) == IF v = {} THEN 1 ELSE (MaxBit(v) \div 7) + 1
Group(v, i) == SumPow({b - 7 * i : b \in v \cap ((7 * i)..(7 * i + 6))})

\* the base-128 little-endian encoding of the word v (binary.PutUvarint)
PutUvarint(v) ==
    [k \in 1..NGroups(v) |-> Group(v, k - 1) + (IF k < NGroups(v) THEN 128 ELSE 0)]

\* wire form of a string: varint length, then the bytes
EncodeString(s) == PutUvarint(NatBits(Len(s))) \o s

RECURSIVE Concat(_)
Concat(ss) == IF ss = <<>> THEN <<>> ELSE Head(ss) \o Concat(Tail(ss))

\* wire form of a list of strings: varint count, then each string
EncodeList(L) ==
    PutUvarint(NatBits(Len(L))) \o Concat([k \in 1..Len(L) |-> EncodeString(L[k])])

SeqsUpTo(S, n) == UNION {[1..k -> S] : k \in 0..n}

Prefixes(s) == {SubSeq(s, 1, k) : k \in 0..Len(s)}

\* byte values the free streams are made of
Alphabet == {0, 1, 2, 128}
FreeStreams == SeqsUpTo(Alphabet, MaxLen)

\* words the varint streams encode: the single bits and the runs of low bits
\* that end next to a 7-bit group boundary, 270 and 65537
GroupEdges == {0, 6, 7, 13, 14, 48, 49, 55, 56, 62, 63}
TestWords ==
    {{b} : b \in GroupEdges} \cup {0..b : b \in GroupEdges}
        \cup {{}, {1, 2, 3, 8}, {0, 16}}
VarintStreams == {PutUvarint(v) \o t : v \in TestWords, t \in {<<>>, <<7>>}}

\* k continuation bytes, then nothing or one terminating byte
ContStreams ==
    {[k \in 1..n |-> 255] \o t : n \in 0..MaxCont, t \in {<<>>, <<1>>, <<2>>}}

\* well-formed lists of short strings, whole or cut short, or followed by a byte
TestStrings == {<<>>, <<97>>, <<98, 46>>}
TestLists == SeqsUpTo(TestStrings, MaxList)
ListStreams ==
    UNION {Prefixes(EncodeList(L)) \cup {EncodeList(L) \o <<9>>} : L \in TestLists}

Streams == FreeStreams \cup VarintStreams \cup ContStreams \cup ListStreams

\* the source delivers at most chunk bytes per Read; BufCap is "never short"
ChunkSizes == (1..MaxChunk) \cup {BufCap}

\* ------------------------------------------------------------------------
\* Specification of the Reader
\* ------------------------------------------------------------------------
Init ==
    /\ src \in Streams
    /\ chunk \in ChunkSizes
    /\ srcErr \in {ErrEOF, ErrSource}
    /\ eofEarly \in BOOLEAN
    /\ buf = <<>>
    /\ op = "NewReader"
    /\ pre = src
    /\ ret = NoResult
    /\ reads = <<>>
    /\ panicked = FALSE
    /\ truncated = FALSE
    /\ bufWas = <<>>
    /\ held = 0
    /\ E2EIdle
    /\ path = <<>> /\ target = <<>> /\ dstBuf = <<>> /\ srcBuf = <<>>
    /\ rop = "none"

FixedOps == {"ReadUint8", "ReadUint16", "ReadUint32", "ReadUint64", "ReadFloat64", "ReadDate"}

\* a first Read that came back short without an error and left the source empty
DrainedShort(o) ==
    /\ Len(o.m.reads) >= 1
    /\ o.m.reads[1][2] < o.m.reads[1][1]
    /\ o.m.reads[1][3] = ErrNil
    /\ o.m.src = <<>>

\* a decode call named name with outcome o; a panic ends the program
Call(name, o) ==
    /\ ~panicked
    /\ src' = o.m.src
    /\ buf' = o.m.buf
    /\ reads' = o.m.reads
    /\ op' = name
    /\ pre' = src
    /\ ret' = o.ret
    /\ panicked' = o.panic
    /\ truncated' = (truncated \/ (name \in FixedOps /\ DrainedShort(o)))
    /\ bufWas' = buf
    /\ held' = (IF op = "ReadStringBytes" /\ ret.err = ErrNil THEN Len(ret.bytes) ELSE 0)
    /\ UNCHANGED <<chunk, srcErr, eofEarly>>
    /\ UNCHANGED <<reverseVars, e2eVars>>

Start == Mach(src, buf, <<>>)

CallReadUvarint ==
    \E v \in {ReadUvarint(Start)} :
        Call("ReadUvarint", Out(v.m, NumResult(v.num, v.err), FALSE))
CallReadUint8 == \E o \in {ReadUint8(Start)} : Call("ReadUint8", o)
CallReadUint16 == \E o \in {ReadUint16(Start)} : Call("ReadUint16", o)
CallReadUint32 == \E o \in {ReadUint32(Start)} : Call("ReadUint32", o)
CallReadUint64 == \E o \in {ReadUint64(Start)} : Call("ReadUint64", o)
CallReadFloat64 == \E o \in {ReadFloat64(Start)} : Call("ReadFloat64", o)
CallReadDate == \E o \in {ReadDate(Start)} : Call("ReadDate", o)
CallReadStringBytes == \E o \in {ReadStringBytes(Start)} : Call("ReadStringBytes", o)
CallReadString == \E o \in {ReadString(Start)} : Call("ReadString", o)
CallReadStringList == \E o \in {ReadStringList(Start)} : Call("ReadStringList", o)

Next ==
    \/ CallReadUvarint
    \/ CallReadUint8
    \/ CallReadUint16
    \/ CallReadUint32
    \/ CallReadUint64
    \/ CallReadFloat64
    \/ CallReadDate
    \/ CallReadStringBytes
    \/ CallReadString
    \/ CallReadStringList

Spec == Init /\ [][Next]_vars

\* ------------------------------------------------------------------------
\* Properties of ReadUvarint
\* ------------------------------------------------------------------------
HasPrefix(s, p) == Len(p) <= Len(s) /\ SubSeq(s, 1, Len(p)) = p

\* the bytes the last call took from the source
Consumed == SubSeq(pre, 1, Len(pre) - Len(src))

\* the first k bytes of s exist and all carry the continuation bit
ContRun(s, k) == Len(s) >= k /\ \A j \in 1..k : s[j] >= 128

\* sum of (s[i] & 0x7f) * 128^i as a set of bit positions, of any height
GroupSum(s) == UNION {{7 * (k - 1) + j : j \in Bits8(s[k] % 128)} : k \in 1..Len(s)}

\* the source hands over its next k bytes without reporting an error
Gives(k) == Len(pre) > k \/ (Len(pre) = k /\ ~eofEarly)

\* the test words with their wire forms
WireWords == {[word |-> v, wire |-> PutUvarint(v)] : v \in TestWords}

\* C1: for every uint64 value v, decoding the base-128 little-endian encoding
\* of v with ReadUvarint returns (v, nil).
C1_RoundTrip ==
    op = "ReadUvarint" =>
        \A e \in WireWords :
            (HasPrefix(pre, e.wire) /\ Gives(Len(e.wire)))
                => (ret.err = ErrNil /\ ret.num = e.word)

\* C2: ReadUvarint on k continuation bytes (0 <= k <= 9) followed by the end
\* of the input returns the truncation error of the source, not
\* ErrUvarintOverflow.
C2_TruncationNotOverflow ==
    (op = "ReadUvarint" /\ Len(pre) <= 9 /\ ContRun(pre, Len(pre)))
        => (ret.err = srcErr /\ ret.err # ErrUvarintOverflow)

\* C3: ReadUvarint returns ErrUvarintOverflow on 11 continuation bytes and on
\* 9 continuation bytes followed by a byte in 2..127, and whenever it returns
\* a nil error the value is exactly the sum of (byte_i & 0x7f) * 128^i over
\* the bytes it consumed.
C3_OverflowSurfaced ==
    op = "ReadUvarint" =>
        /\ ContRun(pre, 11) => ret.err = ErrUvarintOverflow
        /\ (ContRun(pre, 9) /\ Len(pre) >= 10 /\ pre[10] \in 2..127)
              => ret.err = ErrUvarintOverflow
        /\ ret.err = ErrNil => ret.num = GroupSum(Consumed)
        /\ ret.err # ErrNil => ret.num = {}

\* a 10th byte of 2..127 after 9 continuation bytes was refused
C3_Witness ==
    /\ op = "ReadUvarint"
    /\ ContRun(pre, 9) /\ Len(pre) >= 10 /\ pre[10] \in 2..127
    /\ ret.err = ErrUvarintOverflow

\* ------------------------------------------------------------------------
\* Properties of the length-prefixed and the fixed-size reads
\* ------------------------------------------------------------------------
StringOps == {"ReadStringBytes", "ReadString"}
UintOps == {"ReadUint8", "ReadUint16", "ReadUint32", "ReadUint64"}

\* the word v is a number above 65536
Above64K(v) == (\E b \in v : b > 16) \/ (16 \in v /\ v # {16})

\* C4: a length-prefixed read whose declared length n exceeds the 65536-byte
\* scratch buffer never panics: ReadStringBytes/ReadString return an error or
\* exactly the next n bytes of the source.
C4_LongStringNoPanic ==
    op \in StringOps =>
        \A e \in WireWords :
            (Above64K(e.word) /\ HasPrefix(pre, e.wire))
                => /\ ~panicked
                   /\ \/ ret.err # ErrNil
                      \/ /\ Small(e.word)
                         /\ Len(pre) >= Len(e.wire) + ToNat(e.word)
                         /\ ret.bytes = SubSeq(pre, Len(e.wire) + 1,
                                               Len(e.wire) + ToNat(e.word))

\* the first Read of the last call came back short with no error
FirstReadShort ==
    /\ Len(reads) >= 1
    /\ reads[1][2] < reads[1][1]
    /\ reads[1][3] = ErrNil

\* C5: a fixed-size read that the source answers with fewer bytes than asked
\* for and no error fails with io.EOF after that single Read, with no value;
\* once such a read has drained the source, no later decode call panics.
C5_ShortReadFails ==
    /\ (op \in FixedOps /\ FirstReadShort)
          => (ret.err = ErrEOF /\ ret.num = {} /\ Len(reads) = 1 /\ ~panicked)
    /\ truncated => ~panicked

\* a decode call was made after a fixed-size read failed on a drained source
C5_Witness ==
    /\ truncated
    /\ op = "ReadStringBytes"
    /\ ret.err = srcErr
    /\ ~panicked

Width == [ReadUint8 |-> 1, ReadUint16 |-> 2, ReadUint32 |-> 4, ReadUint64 |-> 8]

\* C6: when the next Read delivers the N bytes asked for, ReadUint8/16/32/64
\* returns their little-endian value with a nil error and takes exactly N
\* bytes from the source; on an error the value returned is 0.
C6_LittleEndianValue ==
    op \in UintOps =>
        /\ (Len(pre) >= Width[op] /\ chunk >= Width[op] /\ Gives(Width[op]))
              => /\ ret.err = ErrNil
                 /\ ret.num \subseteq 0..(8 * Width[op] - 1)
                 /\ \A i \in 0..(Width[op] - 1), j \in 0..7 :
                       (8 * i + j \in ret.num) <=> ((pre[i + 1] \div (2^j)) % 2 = 1)
                 /\ src = SubSeq(pre, Width[op] + 1, Len(pre))
        /\ ret.err # ErrNil => ret.num = {}

\* eight bytes that are no palindrome were decoded
C6_Witness ==
    /\ op = "ReadUint64"
    /\ ret.err = ErrNil
    /\ pre[1] # pre[8]
    /\ ret.num # {}

\* ------------------------------------------------------------------------
\* Properties of ReadStringBytes, ReadString and ReadStringList
\* ------------------------------------------------------------------------
\* a Read that delivered all it was asked for, with no error
FullRead(r) == r[2] = r[1] /\ r[3] = ErrNil

\* C7: ReadStringBytes/ReadString read one varint n and then exactly n raw
\* bytes and return those n bytes in order; with n = 0 they return an empty
\* value and a nil error and make no Read after the length varint, so the byte
\* after it is still the next byte of the source.
C7_StringRead ==
    (op \in StringOps /\ ~panicked) =>
        /\ ret.err = ErrNil =>
              LET n == Len(ret.bytes)
                  k == Len(Consumed) - n
              IN /\ k >= 1
                 /\ ContRun(Consumed, k - 1)
                 /\ Consumed[k] < 128
                 /\ GroupSum(SubSeq(Consumed, 1, k)) = NatBits(n)
                 /\ ret.bytes = SubSeq(Consumed, k + 1, Len(Consumed))
        /\ \A n \in 1..Len(pre) :
              LET V == PutUvarint(NatBits(n))
              IN (HasPrefix(pre, V) /\ Len(pre) >= Len(V) + n /\ chunk >= n
                     /\ Gives(Len(V) + n))
                    => /\ ret.err = ErrNil
                       /\ ret.bytes = SubSeq(pre, Len(V) + 1, Len(V) + n)
                       /\ src = SubSeq(pre, Len(V) + n + 1, Len(pre))
        /\ (pre # <<>> /\ pre[1] = 0 /\ Gives(1))
              => /\ ret.err = ErrNil
                 /\ ret.bytes = <<>>
                 /\ reads = << <<1, 1, ErrNil>> >>
                 /\ src = Tail(pre)

\* a two-byte string was read and the source holds more
C7_Witness ==
    /\ op = "ReadString"
    /\ ret.err = ErrNil
    /\ Len(ret.bytes) = 2
    /\ ret.bytes[1] # ret.bytes[2]
    /\ src # <<>>

\* the test lists with their wire forms
WireLists == {[list |-> L, wire |-> EncodeList(L)] : L \in TestLists}

\* every string of L is delivered by one Read
Delivered(L) == \A k \in 1..Len(L) : chunk >= Len(L[k])

\* C8: ReadStringList on a well-formed stream [varint n][n length-prefixed
\* strings] returns, with a nil error, exactly the n strings in stream order;
\* with n = 0 it returns an empty list and takes only the count varint.
C8_ListRead ==
    op = "ReadStringList" =>
        \A e \in WireLists :
            (HasPrefix(pre, e.wire) /\ Delivered(e.list) /\ Gives(Len(e.wire)))
                => /\ ~panicked
                   /\ ret.err = ErrNil
                   /\ ~ret.isNil
                   /\ ret.n = NatBits(Len(e.list))
                   /\ ret.list = e.list
                   /\ src = SubSeq(pre, Len(e.wire) + 1, Len(pre))
                   /\ e.list = <<>> => reads = << <<1, 1, ErrNil>> >>

\* a list of two different strings was read
C8_Witness ==
    /\ op = "ReadStringList"
    /\ ret.err = ErrNil
    /\ Len(ret.list) = 2
    /\ Len(ret.list[1]) = 1
    /\ Len(ret.list[2]) = 2

\* bytes of the wire form of L up to the end of its k-th string
EncLen(L, k) == Len(EncodeList(SubSeq(L, 1, k)))

\* strings of L that lie wholly in the first c bytes of its wire form
Whole(L, c) == Cardinality({k \in 1..Len(L) : EncLen(L, k) <= c})

\* the wire forms of the test lists cut after c bytes, c at least the count
\* byte and less than the whole: the strings that are whole, and whether the
\* cut leaves a part of a string's bytes
CutLists ==
    UNION {{[list |-> e.list, wire |-> SubSeq(e.wire, 1, c),
             whole |-> Whole(e.list, c),
             inPayload |-> c > EncLen(e.list, Whole(e.list, c)) + 1] :
               c \in 1..(Len(e.wire) - 1)} : e \in WireLists}

\* C9: when ReadStringList has read a count n > 0 and the read of element i
\* fails, it returns that error unchanged with the list of n elements of which
\* the first i are the strings decoded so far, and reads nothing more; when the
\* count varint fails, the list returned is nil.
C9_ListPartial ==
    (op = "ReadStringList" /\ ~panicked /\ ret.err # ErrNil) =>
        /\ \A e \in CutLists :
              (pre = e.wire /\ Delivered(e.list) /\ ~eofEarly)
                  => /\ ~ret.isNil
                     /\ ret.n = NatBits(Len(e.list))
                     /\ ret.list = SubSeq(e.list, 1, e.whole)
                     /\ ret.err = (IF e.inPayload THEN ErrEOF ELSE srcErr)
                     /\ src = <<>>
        /\ (pre = <<>> \/ ContRun(pre, Len(pre)) \/ ContRun(pre, 8))
              => (ret.isNil /\ ret.list = <<>> /\ ret.n = {})
        /\ (pre # <<>> /\ pre[1] \in 1..127 /\ Gives(1))
              => (~ret.isNil /\ ret.n = NatBits(pre[1]))
        /\ \A j \in 1..(Len(reads) - 1) : FullRead(reads[j])
        /\ \/ /\ ret.err = ErrUvarintOverflow
              /\ \A j \in 1..Len(reads) : FullRead(reads[j])
              /\ Len(Consumed) >= 8
              /\ \A j \in (Len(Consumed) - 7)..Len(Consumed) : Consumed[j] >= 128
           \/ /\ reads # <<>>
              /\ ~FullRead(reads[Len(reads)])
              /\ ret.err = (IF reads[Len(reads)][3] # ErrNil
                            THEN reads[Len(reads)][3] ELSE ErrEOF)

\* the second of two elements failed and bytes are left in the source
C9_Witness ==
    /\ op = "ReadStringList"
    /\ ret.err = ErrEOF
    /\ ret.n = {1}
    /\ Len(ret.list) = 1
    /\ ret.list[1] # <<>>
    /\ src # <<>>

\* ------------------------------------------------------------------------
\* Order of the bytes taken from the source
\* ------------------------------------------------------------------------
\* bytes the source delivered in the first j Reads of the last call
RECURSIVE Taken(_)
Taken(j) == IF j = 0 THEN 0 ELSE Taken(j - 1) + reads[j][2]

\* position of the byte that ends the varint at the head of s, 0 with none
VarintLen(s) ==
    IF \E k \in 1..Len(s) : s[k] < 128
    THEN CHOOSE k \in 1..Len(s) : s[k] < 128 /\ \A j \in 1..(k - 1) : s[j] >= 128
    ELSE 0

\* value of the varint at the head of s
VarintWord(s) == GroupSum(SubSeq(s, 1, VarintLen(s)))

\* length of the wire form of the string at the head of s, -1 with none
StringWire(s) ==
    IF VarintLen(s) = 0 \/ ~Small(VarintWord(s)) THEN -1
    ELSE IF VarintLen(s) + ToNat(VarintWord(s)) > Len(s) THEN -1
    ELSE VarintLen(s) + ToNat(VarintWord(s))

\* end of the wire forms of the c strings that follow the first at bytes of s,
\* -1 with fewer
RECURSIVE SkipStrings(_, _, _)
SkipStrings(s, at, c) ==
    IF c = 0 THEN at
    ELSE IF StringWire(SubSeq(s, at + 1, Len(s))) = -1 THEN -1
    ELSE SkipStrings(s, at + StringWire(SubSeq(s, at + 1, Len(s))), c - 1)

\* length of the wire form of the field that the call o decodes at the head
\* of s, -1 when s does not hold a whole one
FieldWire(o, s) ==
    IF o \in {"ReadUint8"} THEN 1
    ELSE IF o \in {"ReadUint16", "ReadDate"} THEN 2
    ELSE IF o = "ReadUint32" THEN 4
    ELSE IF o \in {"ReadUint64", "ReadFloat64"} THEN 8
    ELSE IF o = "ReadUvarint" THEN (IF VarintLen(s) = 0 THEN -1 ELSE VarintLen(s))
    ELSE IF o \in {"ReadStringBytes", "ReadString"} THEN StringWire(s)
    ELSE IF VarintLen(s) = 0 \/ ~Small(VarintWord(s)) THEN -1
    ELSE SkipStrings(s, VarintLen(s), ToNat(VarintWord(s)))

\* the j-th Read of the last call asks for no more than the field needs: the
\* whole of a fixed-size field, one byte of a varint, or the bytes of a string
\* whose length varint ends right before it
Needed(j) ==
    \/ op \in FixedOps /\ j = 1 /\ reads[1][1] = FieldWire(op, pre)
    \/ op \notin FixedOps /\ reads[j][1] = 1
    \/ /\ op \in {"ReadStringBytes", "ReadString", "ReadStringList"}
       /\ j > 1
       /\ \E p \in 1..Taken(j - 1) :
             /\ \A k \in p..(Taken(j - 1) - 1) : pre[k] >= 128
             /\ pre[Taken(j - 1)] < 128
             /\ GroupSum(SubSeq(pre, p, Taken(j - 1))) = NatBits(reads[j][1])

\* C11: across any sequence of decode calls the bytes of the source are taken
\* in stream order with no read-ahead: every Read asks for at most what the
\* current field still needs, is made only after the Reads before it were
\* answered in full, and a successful call takes exactly the bytes of its own
\* encoding, so the next call starts at the first byte after it.
C11_NoReadAhead ==
    (op # "NewReader" /\ ~panicked) =>
        /\ \A j \in 1..Len(reads) : Needed(j) /\ reads[j][2] <= reads[j][1]
        /\ \A j \in 1..(Len(reads) - 1) : FullRead(reads[j])
        /\ op \in FixedOps => Len(reads) = 1
        /\ op = "ReadUvarint" => \A j \in 1..(Len(reads) - 1) : pre[j] >= 128
        /\ Taken(Len(reads)) = Len(pre) - Len(src)
        /\ ret.err = ErrNil =>
              /\ \A j \in 1..Len(reads) : FullRead(reads[j])
              /\ Len(Consumed) = FieldWire(op, pre)
              /\ src = SubSeq(pre, FieldWire(op, pre) + 1, Len(pre))

\* a fixed-size read succeeded after an earlier call had filled more of the
\* buffer, and bytes are left for the next call
C11_Witness ==
    /\ op = "ReadUint16"
    /\ ret.err = ErrNil
    /\ Len(buf) > 2
    /\ src # <<>>

\* ------------------------------------------------------------------------
\* ReadUvarint and the scratch buffer
\* ------------------------------------------------------------------------
\* index past the written prefixes of r.buf before and after the last call
BufTop == IF Len(buf) > Len(bufWas) THEN Len(buf) ELSE Len(bufWas)

\* C12: a call to ReadUvarint leaves every byte of the Reader's scratch
\* buffer unchanged, so a slice returned earlier by ReadStringBytes holds the
\* same contents after a following ReadUvarint call.
C12_ScratchUntouched ==
    op = "ReadUvarint" =>
        /\ \A k \in 0..(BufTop - 1) : BufAt(buf, k) = BufAt(bufWas, k)
        /\ BufSlice(buf, held) = BufSlice(bufWas, held)

\* C12 as amended: ReadUvarint reads its bytes one at a time into the scratch
\* buffer, byte i of the varint into r.buf[i]: a call overwrites as many
\* leading bytes of the buffer as it took from the source, at most 8, and
\* leaves every byte after them unchanged, so a slice returned earlier by
\* ReadStringBytes keeps its contents from that index on.
C12_ScratchPrefixOnly ==
    op = "ReadUvarint" =>
        /\ Len(Consumed) <= SIZE_INT64
        /\ \A k \in 0..(Len(Consumed) - 1) : BufAt(buf, k) = pre[k + 1]
        /\ \A k \in Len(Consumed)..(BufTop - 1) : BufAt(buf, k) = BufAt(bufWas, k)
        /\ \A k \in Len(Consumed)..(held - 1) :
              BufSlice(buf, held)[k + 1] = BufSlice(bufWas, held)[k + 1]

\* a two-byte slice from ReadStringBytes lost its first byte to a one-byte
\* varint and kept its second
C12_Witness ==
    /\ op = "ReadUvarint"
    /\ held = 2
    /\ Len(Consumed) = 1
    /\ BufAt(buf, 0) # BufAt(bufWas, 0)
    /\ BufAt(buf, 1) = BufAt(bufWas, 1)
    /\ BufAt(buf, 1) # 0

\* ------------------------------------------------------------------------
\* Reversal of a metric path
\* ------------------------------------------------------------------------
\* longest path drawn freely from PathBytes
MaxPath == 4

Dot == 46

\* position of the first Dot of s, 0 when there is none
FirstDot(s) ==
    IF \E k \in 1..Len(s) : s[k] = Dot
    THEN CHOOSE k \in 1..Len(s) : s[k] = Dot /\ \A j \in 1..(k - 1) : s[j] # Dot
    ELSE 0

\* mutant: empty segments are dropped
RECURSIVE SplitNonEmpty(_)
SplitNonEmpty(s) ==
    IF FirstDot(s) = 0 THEN (IF s = <<>> THEN <<>> ELSE <<s>>)
    ELSE (IF FirstDot(s) = 1 THEN <<>> ELSE <<SubSeq(s, 1, FirstDot(s) - 1)>>)
             \o SplitNonEmpty(SubSeq(s, FirstDot(s) + 1, Len(s)))

\* bytes.Split(s, []byte{'.'}): the segments between the dots, empty ones kept
RECURSIVE Split(_)
Split(s) ==
    IF FirstDot(s) = 0 THEN <<s>>
    ELSE <<SubSeq(s, 1, FirstDot(s) - 1)>> \o Split(SubSeq(s, FirstDot(s) + 1, Len(s)))

\* bytes.Join(a, []byte{'.'})
RECURSIVE Join(_)
Join(a) ==
    IF a = <<>> THEN <<>>
    ELSE IF Len(a) = 1 THEN a[1]
    ELSE a[1] \o <<Dot>> \o Join(Tail(a))

\* a with its elements at the 0-based positions i and j exchanged
Swap(a, i, j) ==
    [k \in 1..Len(a) |-> IF k = i + 1 THEN a[j + 1] ELSE IF k = j + 1 THEN a[i + 1] ELSE a[k]]

\* for i := from; i < l/2; i++ { a[i], a[l-i-1] = a[l-i-1], a[i] }
RECURSIVE SwapLoop(_, _)
SwapLoop(a, i) ==
    IF i < Len(a) \div 2 THEN SwapLoop(Swap(a, i, Len(a) - i - 1), i + 1) ELSE a

reverseBytesOriginal(t) == Join(SwapLoop(Split(t), 0))

\* b with the bytes at the 0-based positions lo..hi in reverse order
RECURSIVE ReverseRange(_, _, _)
ReverseRange(b, lo, hi) ==
    IF lo < hi THEN ReverseRange(Swap(b, lo, hi), lo + 1, hi - 1) ELSE b

\* every segment of b that starts at or after the 0-based position from is
\* reversed in place
RECURSIVE ReverseSegments(_, _)
ReverseSegments(b, from) ==
    IF from >= Len(b) THEN b
    ELSE LET rest == SubSeq(b, from + 1, Len(b))
             end == IF FirstDot(rest) = 0 THEN Len(b) ELSE from + FirstDot(rest) - 1
         IN ReverseSegments(ReverseRange(b, from, end - 1), end + 1)

\* ReverseMetricInplace(target): all bytes are reversed by swaps from the
\* outside in, then each segment is reversed back; no second buffer
ReverseMetricInplace(t) == ReverseSegments(ReverseRange(t, 0, Len(t) - 1), 0)

\* copy(d[at:], data)
CopyAt(d, at, data) ==
    [k \in 1..Len(d) |-> IF k > at /\ k <= at + Len(data) THEN data[k - at] ELSE d[k]]

\* position of the last Dot among the first n bytes of s, 0 when there is none
LastDot(s, n) ==
    IF \E k \in 1..n : s[k] = Dot
    THEN CHOOSE k \in 1..n : s[k] = Dot /\ \A j \in (k + 1)..n : s[j] # Dot
    ELSE 0

\* the segments of s[0:n] are copied to d from at on, last segment first
RECURSIVE CopySegments(_, _, _, _)
CopySegments(d, s, n, at) ==
    IF LastDot(s, n) = 0 THEN CopyAt(d, at, SubSeq(s, 1, n))
    ELSE CopySegments(
             CopyAt(d, at, SubSeq(s, LastDot(s, n) + 1, n) \o <<Dot>>),
             s, LastDot(s, n) - 1, at + (n - LastDot(s, n)) + 1)

\* ReverseBytesTo(dst, src): dst[0:len(src)] receives the reversed path, src
\* is only read
ReverseBytesTo(d, s) == [dst |-> CopySegments(d, s, Len(s), 0), src |-> s]

PathBytes == {Dot, 97, 98}

\* the table of TestReverseInplace and TestReverseBytesTo
TestTable ==
    {<<99, 97, 114, 98, 111, 110, 46,
        97, 103, 101, 110, 116, 115, 46,
        99, 97, 114, 98, 111, 110, 45, 99, 108, 105, 99, 107, 104, 111, 117, 115, 101, 46,
        103, 114, 97, 112, 104, 105, 116, 101, 49, 46,
        116, 99, 112, 46,
        109, 101, 116, 114, 105, 99, 115, 82, 101, 99, 101, 105, 118, 101, 100>>,
     <<>>,
     <<46>>,
     <<99, 97, 114, 98, 111, 110, 46, 46, 120, 120>>,
     <<46, 104, 101, 108, 108, 111, 46, 46, 119, 111, 114, 108, 100, 46>>}

Paths == SeqsUpTo(PathBytes, MaxPath) \cup TestTable

InitReverse ==
    /\ path \in Paths
    /\ target = path
    /\ srcBuf = path
    /\ dstBuf = [k \in 1..Len(path) |-> 0]
    /\ rop = "none"
    /\ src = <<>> /\ chunk = BufCap /\ srcErr = ErrEOF /\ eofEarly = FALSE /\ buf = <<>>
    /\ op = "NewReader" /\ pre = <<>> /\ ret = NoResult /\ reads = <<>>
    /\ panicked = FALSE /\ truncated = FALSE /\ bufWas = <<>> /\ held = 0
    /\ E2EIdle

\* y := []byte(table[i]); ReverseMetricInplace(y)
CallReverseMetricInplace ==
    /\ rop = "none"
    /\ target' = ReverseMetricInplace(target)
    /\ rop' = "ReverseMetricInplace"
    /\ UNCHANGED <<path, dstBuf, srcBuf, readerVars, e2eVars>>

\* y := make([]byte, len(x)); ReverseBytesTo(y, x)
CallReverseBytesTo ==
    /\ rop = "none"
    /\ \E r \in {ReverseBytesTo(dstBuf, srcBuf)} :
          dstBuf' = r.dst /\ srcBuf' = r.src
    /\ rop' = "ReverseBytesTo"
    /\ UNCHANGED <<path, target, readerVars, e2eVars>>

NextReverse ==
    \/ CallReverseMetricInplace
    \/ CallReverseBytesTo

SpecReverse == InitReverse /\ [][NextReverse]_vars

\* C10: for every byte sequence S, ReverseMetricInplace on a copy of S and
\* ReverseBytesTo(D, S) with len(D) = len(S) both yield the bytes of
\* reverseBytesOriginal(S), of the length of S, and ReverseBytesTo leaves S
\* unchanged.
C10_ReverseEquivalence ==
    /\ rop = "ReverseMetricInplace"
          => (target = reverseBytesOriginal(path) /\ Len(target) = Len(path))
    /\ rop = "ReverseBytesTo"
          => /\ dstBuf = reverseBytesOriginal(path)
             /\ Len(dstBuf) = Len(path)
             /\ srcBuf = path

\* ".hello..world." was reversed into ".world..hello."
C10_Witness ==
    /\ rop = "ReverseBytesTo"
    /\ path = <<46, 104, 101, 108, 108, 111, 46, 46, 119, 111, 114, 108, 100, 46>>
    /\ dstBuf = <<46, 119, 111, 114, 108, 100, 46, 46, 104, 101, 108, 108, 111, 46>>

\* ------------------------------------------------------------------------
\* End-to-end harness: testCarbonClickhouse and debug
\* ------------------------------------------------------------------------
\* most entries of test.Verify
MaxVerify == 2
\* most lines other than "y" that debug() reads from stdin
MaxAsk == 2

InitE2E ==
    /\ pc = "clickhouse.Start"
    /\ version \in {1, 2}
    /\ breakOnError \in (IF version = 1 THEN BOOLEAN ELSE {FALSE})
    /\ inputType \in {"tcp", "other"}
    /\ nInput \in 0..1
    /\ nVerify \in 0..MaxVerify
    /\ vi = 0 /\ testSuccess = TRUE /\ verifyFailed = 0
    /\ lastErr = "nil" /\ started = FALSE /\ back = "none" /\ calls = <<>> /\ answers = <<>>
    /\ src = <<>> /\ chunk = BufCap /\ srcErr = ErrEOF /\ eofEarly = FALSE /\ buf = <<>>
    /\ op = "NewReader" /\ pre = <<>> /\ ret = NoResult /\ reads = <<>>
    /\ panicked = FALSE /\ truncated = FALSE /\ bufWas = <<>> /\ held = 0
    /\ path = <<>> /\ target = <<>> /\ dstBuf = <<>> /\ srcBuf = <<>> /\ rop = "none"

\* mutant: the early return leaves clickhouse running
StopOnStartFailureSkipped(c) == c

\* line 160: clickhouse.Stop(true) before the early return
StopOnStartFailure(c) == Append(c, "clickhouse.Stop")

\* lines 148-162: err, out := clickhouse.Start()
ClickhouseStart ==
    /\ pc = "clickhouse.Start"
    /\ \E ok \in BOOLEAN :
          /\ started' = ok
          /\ IF ok
                THEN /\ calls' = Append(calls, "clickhouse.Start")
                     /\ pc' = "cch.Start"
                     /\ UNCHANGED testSuccess
                ELSE /\ calls' = StopOnStartFailure(Append(calls, "clickhouse.Start"))
                     /\ testSuccess' = FALSE
                     /\ pc' = "done"
    /\ UNCHANGED <<version, breakOnError, inputType, nInput, nVerify, vi, verifyFailed,
                   lastErr, back, answers>>
    /\ UNCHANGED <<readerVars, reverseVars>>

\* lines 164-181 and 190: err = cch.Start(clickhouse.Address())
CchStart ==
    /\ pc = "cch.Start"
    /\ \E ok \in BOOLEAN :
          /\ lastErr' = (IF ok THEN "nil" ELSE "error")
          /\ testSuccess' = ok
          /\ pc' = (IF ~ok THEN "cch.Stop" ELSE IF nInput > 0 THEN "send" ELSE "verify")
    /\ calls' = Append(calls, "cch.Start")
    /\ UNCHANGED <<version, breakOnError, inputType, nInput, nVerify, vi, verifyFailed,
                   started, back, answers>>
    /\ UNCHANGED <<readerVars, reverseVars>>

\* lines 191-211: the input is sent; any type but InputPlainTCP is an error
Send ==
    /\ pc = "send"
    /\ \E ok \in (IF inputType = "tcp" THEN BOOLEAN ELSE {FALSE}) :
          /\ lastErr' = (IF ok THEN "nil" ELSE "error")
          /\ testSuccess' = ok
          /\ pc' = (IF ok THEN "verify" ELSE IF breakOnError THEN "debug" ELSE "cch.Stop")
          /\ back' = (IF ~ok /\ breakOnError THEN "cch.Stop" ELSE back)
    /\ UNCHANGED <<version, breakOnError, inputType, nInput, nVerify, vi, verifyFailed,
                   started, calls, answers>>
    /\ UNCHANGED <<readerVars, reverseVars>>

\* lines 217-241: one round of the loop over test.Verify
VerifyOut ==
    /\ pc = "verify"
    /\ vi < nVerify
    /\ vi' = vi + 1
    /\ \E ok \in BOOLEAN :
          /\ testSuccess' = (testSuccess /\ ok)
          /\ verifyFailed' = (IF ok THEN verifyFailed ELSE verifyFailed + 1)
          /\ pc' = (IF ~ok /\ breakOnError THEN "debug" ELSE "verify")
          /\ back' = (IF ~ok /\ breakOnError THEN "verify" ELSE back)
    /\ UNCHANGED <<version, breakOnError, inputType, nInput, nVerify, lastErr, started,
                   calls, answers>>
    /\ UNCHANGED <<readerVars, reverseVars>>

\* lines 242-262: the loop is over
VerifyEnd ==
    /\ pc = "verify"
    /\ vi = nVerify
    /\ pc' = "cch.Stop"
    /\ UNCHANGED <<version, breakOnError, inputType, nInput, nVerify, vi, testSuccess,
                   verifyFailed, lastErr, started, back, calls, answers>>
    /\ UNCHANGED <<readerVars, reverseVars>>

\* lines 367-381: one round of debug()'s loop; in.Text() is "" at end of input
Debug ==
    /\ pc = "debug"
    /\ \E s \in {"y", "k", ""} :
          /\ s # "y" => Len(answers) < MaxAsk
          /\ answers' = Append(answers, s)
          /\ calls' = (IF s = "k" THEN Append(calls, "cch.Stop") ELSE calls)
          /\ pc' = (IF s = "y" THEN back ELSE "debug")
          /\ back' = (IF s = "y" THEN "none" ELSE back)
    /\ UNCHANGED <<version, breakOnError, inputType, nInput, nVerify, vi, testSuccess,
                   verifyFailed, lastErr, started>>
    /\ UNCHANGED <<readerVars, reverseVars>>

\* line 264: err = cch.Stop()
CchStop ==
    /\ pc = "cch.Stop"
    /\ \E e \in {"nil", "error"} : lastErr' = e
    /\ calls' = Append(calls, "cch.Stop")
    /\ pc' = "cch.Cleanup"
    /\ UNCHANGED <<version, breakOnError, inputType, nInput, nVerify, vi, testSuccess,
                   verifyFailed, started, back, answers>>
    /\ UNCHANGED <<readerVars, reverseVars>>

\* lines 265-276: cch.Cleanup(), then the error of cch.Stop is looked at
CchCleanup ==
    /\ pc = "cch.Cleanup"
    /\ calls' = Append(calls, "cch.Cleanup")
    /\ testSuccess' = (testSuccess /\ lastErr = "nil")
    /\ pc' = "clickhouse.Stop"
    /\ UNCHANGED <<version, breakOnError, inputType, nInput, nVerify, vi, verifyFailed,
                   lastErr, started, back, answers>>
    /\ UNCHANGED <<readerVars, reverseVars>>

\* lines 278-309: err, out = clickhouse.Stop(true), and the return
ClickhouseStop ==
    /\ pc = "clickhouse.Stop"
    /\ \E e \in {"nil", "error"} :
          /\ lastErr' = e
          /\ testSuccess' = (testSuccess /\ e = "nil")
    /\ calls' = Append(calls, "clickhouse.Stop")
    /\ pc' = "done"
    /\ UNCHANGED <<version, breakOnError, inputType, nInput, nVerify, vi, verifyFailed,
                   started, back, answers>>
    /\ UNCHANGED <<readerVars, reverseVars>>

NextE2E ==
    \/ ClickhouseStart
    \/ CchStart
    \/ Send
    \/ VerifyOut
    \/ VerifyEnd
    \/ Debug
    \/ CchStop
    \/ CchCleanup
    \/ ClickhouseStop

SpecE2E == InitE2E /\ [][NextE2E]_vars

\* number of calls of f so far
Count(f) == Cardinality({k \in 1..Len(calls) : calls[k] = f})

\* times debug() was answered "k"
Kills == Cardinality({k \in 1..Len(answers) : answers[k] = "k"})

\* C13: when testCarbonClickhouse returns, clickhouse.Stop(true) has been
\* called exactly once, and if clickhouse.Start succeeded, cch.Stop and then
\* cch.Cleanup have each been called exactly once before clickhouse.Stop,
\* whatever failed in between, the path through debug() included.
C13_TeardownOnce ==
    pc = "done" =>
        /\ Count("clickhouse.Stop") = 1
        /\ started =>
              /\ Count("cch.Stop") = 1
              /\ Count("cch.Cleanup") = 1
              /\ \E i, j, k \in 1..Len(calls) :
                    /\ i < j /\ j < k
                    /\ calls[i] = "cch.Stop"
                    /\ calls[j] = "cch.Cleanup"
                    /\ calls[k] = "clickhouse.Stop"

\* C13 as amended: when testCarbonClickhouse returns, its last call is the
\* one call of clickhouse.Stop(true); if clickhouse.Start succeeded, the two
\* calls before it are cch.Stop and the one call of cch.Cleanup, and cch.Stop
\* has been called once by the function itself and once more for every "k"
\* answered to debug(), which happens only with breakOnError after a failed
\* send or verification; if clickhouse.Start failed, cch is never touched.
\* While debug() waits for "y", no teardown call has been made.
C13_Teardown ==
    /\ pc = "debug" => (Count("clickhouse.Stop") = 0 /\ Count("cch.Cleanup") = 0)
    /\ pc = "done" =>
          /\ Count("clickhouse.Stop") = 1
          /\ calls[Len(calls)] = "clickhouse.Stop"
          /\ started =>
                /\ Len(calls) >= 5
                /\ calls[Len(calls) - 1] = "cch.Cleanup"
                /\ calls[Len(calls) - 2] = "cch.Stop"
                /\ Count("cch.Cleanup") = 1
                /\ Count("cch.Stop") = 1 + Kills
          /\ ~started => calls = <<"clickhouse.Start", "clickhouse.Stop">>
          /\ Kills > 0 => (version = 1 /\ breakOnError /\ ~testSuccess)

\* debug() was answered "k" after a failed verification, and the function
\* has returned
C13_Witness ==
    /\ pc = "done"
    /\ started
    /\ breakOnError
    /\ verifyFailed > 0
    /\ Kills = 1
    /\ Count("cch.Stop") = 2

====
